---- MODULE Spec2Model ----
(***************************************************************************)
(* A model of the cycle symbolic-algebra core: the expression order        *)
(* (Expr::cmp), occurs/substitute (Expr::free, Expr::subs), the lexer, the *)
(* operator-precedence parser, the interpreter's rule and definition       *)
(* tables with the rewrite pass, and the sequence evaluator.               *)
(*                                                                         *)
(* Expressions are tuples whose first element is the variant tag:          *)
(*   <<"Sym", name>>            Expr::Sym  (name: a tuple of characters)    *)
(*   <<"Cte", name>>            Expr::Cte                                   *)
(*   <<"Num", n>>               Expr::Num(Number::Z(n))                     *)
(*   <<"U", map, arg>>          Expr::Alg(Algebra::UExpr {map, arg})        *)
(*   <<"B", map, term, exp>>    Expr::Alg(Algebra::BExpr {map, arg})        *)
(*   <<"A", map, children>>     Expr::Alg(Algebra::AssocExpr(Assoc))        *)
(*   <<"Fun", name, args>>      Expr::Fun(Function::MapExpr {map, arg})     *)
(*   <<"Sq", map, idx, lo, up, arg>>   Tree::Sq(Sequence)                   *)
(***************************************************************************)
EXTENDS Integers, Sequences, FiniteSets, TLC

VARIABLES
  ordSt, ordA, ordB, ordAB, ordBA,
  subSt, subE, subP, subR, subOut,
  lexSt, lexSrc, lexCur, lexOut,
  parSt, parSrc, parOut,
  rules, defs, intSt, nStmts, lastStmt, lastAst, lastRes,
  sqSt, sqIn, sqTerms, sqOut

ordVars == <<ordSt, ordA, ordB, ordAB, ordBA>>
subVars == <<subSt, subE, subP, subR, subOut>>

lexVars == <<lexSt, lexSrc, lexCur, lexOut>>

parVars == <<parSt, parSrc, parOut>>

intVars == <<rules, defs, intSt, nStmts, lastStmt, lastAst, lastRes>>

sqVars == <<sqSt, sqIn, sqTerms, sqOut>>

vars == <<ordVars, subVars, lexVars, parVars, intVars, sqVars>>

\* ------------------------------------------------------------------ bounds

\* longest child sequence of an associative node in the drawn expressions
MaxAssocLen == 2

\* longest source text, in characters, handed to the lexer alone
MaxSrcLen == 5

\* most calls of Lexer::next on one source text
MaxItems == 6

\* longest statement text, in characters, handed to the parser alone
MaxStmtLen == 5

\* most statements handed to one interpreter
MaxStmts == 4

\* nested re-runs of the rewrite pass followed before the pass is taken
\* not to return
MaxFuel == 6

\* ------------------------------------------------------ expression values

Sym(n) == <<"Sym", n>>
Cte(n) == <<"Cte", n>>
Num(n) == <<"Num", n>>
UExpr(m, a) == <<"U", m, a>>
BExpr(m, t, e) == <<"B", m, t, e>>
Assoc(m, s) == <<"A", m, s>>
Fun(n, s) == <<"Fun", n, s>>

Tag(e) == e[1]

\* Expr::ONE
ONE == Num(1)

\* Expr::ZERO
ZERO == Num(0)

\* ------------------------------------------- components not exercised

\* the variables of a component while another one is exercised
OrdIdle ==
  /\ ordSt = "idle"
  /\ ordA = ZERO
  /\ ordB = ZERO
  /\ ordAB = "none"
  /\ ordBA = "none"

SubIdle ==
  /\ subSt = "idle"
  /\ subE = ZERO
  /\ subP = ZERO
  /\ subR = ZERO
  /\ subOut = ZERO

LexIdle ==
  /\ lexSt = "idle"
  /\ lexSrc = <<>>
  /\ lexCur = 0
  /\ lexOut = <<>>

ParIdle ==
  /\ parSt = "idle"
  /\ parSrc = <<>>
  /\ parOut = [ok |-> FALSE, val |-> <<"Err", "None", 0, 0>>, cur |-> 0]

IntIdle ==
  /\ intSt = "idle"
  /\ rules = <<>>
  /\ defs = <<>>
  /\ nStmts = 0
  /\ lastStmt = <<"none">>
  /\ lastAst = <<"NoAst">>
  /\ lastRes = <<"none">>

SqIdle ==
  /\ sqSt = "idle"
  /\ sqIn = ZERO
  /\ sqTerms = <<>>
  /\ sqOut = [ok |-> TRUE, val |-> ZERO]

\* ------------------------------------------------------------ helpers

Rev(s) == [i \in 1..Len(s) |-> s[Len(s) + 1 - i]]

SeqsUpTo(S, n) == UNION {[1..k -> S] : k \in 0..n}

\* ------------------------------------------------------------ the order

\* the code point of a character, as far as names are drawn from
CharCode(c) ==
  CASE c = "a" -> 97 [] c = "b" -> 98 [] c = "c" -> 99 [] c = "d" -> 100
    [] c = "e" -> 101 [] c = "f" -> 102 [] c = "g" -> 103 [] c = "i" -> 105
    [] c = "p" -> 112 [] c = "x" -> 120 [] c = "y" -> 121 [] c = "z" -> 122
    [] OTHER -> 200

OrdOfInt(x, y) == IF x < y THEN "Less" ELSE IF x > y THEN "Greater" ELSE "Equal"

\* Ordering::then
Then(c, d) == IF c = "Equal" THEN d ELSE c

\* Ordering::reverse
Reverse(c) == IF c = "Less" THEN "Greater" ELSE IF c = "Greater" THEN "Less" ELSE "Equal"

RECURSIVE NameCmp(_, _)
\* String::cmp on symbol names: lexicographic, a proper prefix is smaller
NameCmp(l, r) ==
  IF l = <<>> /\ r = <<>> THEN "Equal"
  ELSE IF l = <<>> THEN "Less"
  ELSE IF r = <<>> THEN "Greater"
  ELSE Then(OrdOfInt(CharCode(Head(l)), CharCode(Head(r))), NameCmp(Tail(l), Tail(r)))

RECURSIVE Cmp(_, _), IterCmp(_, _), IterCmpRepeatR(_, _), IterCmpRepeatL(_, _)

\* Iterator::cmp of two finite iterators: lexicographic by Expr::cmp
IterCmp(l, r) ==
  IF l = <<>> /\ r = <<>> THEN "Equal"
  ELSE IF l = <<>> THEN "Less"
  ELSE IF r = <<>> THEN "Greater"
  ELSE Then(Cmp(Head(l), Head(r)), IterCmp(Tail(l), Tail(r)))

\* Iterator::cmp of a finite iterator with iter::repeat(x)
IterCmpRepeatR(l, x) ==
  IF l = <<>> THEN "Less"
  ELSE Then(Cmp(Head(l), x), IterCmpRepeatR(Tail(l), x))

\* Iterator::cmp of iter::repeat(x) with a finite iterator
IterCmpRepeatL(x, r) ==
  IF r = <<>> THEN "Greater"
  ELSE Then(Cmp(x, Head(r)), IterCmpRepeatL(x, Tail(r)))

\* impl Ord for Expr: the match arms in their order
Cmp(l, r) ==
  CASE Tag(l) = "Sym" /\ Tag(r) = "Sym" -> NameCmp(l[2], r[2])
    [] Tag(l) = "Num" /\ Tag(r) = "Num" -> OrdOfInt(l[2], r[2])
    [] Tag(l) = "U" /\ Tag(r) = "U" -> Cmp(l[3], r[3])
    [] Tag(l) = "B" /\ Tag(r) = "B" -> Then(Cmp(l[3], r[3]), Cmp(l[4], r[4]))
    [] Tag(l) = "A" /\ Tag(r) = "A" -> IterCmp(Rev(l[3]), Rev(r[3]))
    [] OTHER ->
       IF Tag(l) = "B" THEN Then(Cmp(l[3], r), Cmp(l[4], ONE))
       ELSE IF Tag(r) = "B" THEN Then(Cmp(l, r[3]), Cmp(ONE, r[4]))
       ELSE IF Tag(l) = "A" THEN IterCmpRepeatR(Rev(l[3]), r)
       ELSE IF Tag(r) = "A" THEN IterCmpRepeatL(l, Rev(r[3]))
       ELSE IF Tag(l) = "Num" THEN "Less"
       ELSE IF Tag(r) = "Num" THEN "Greater"
       ELSE IF Tag(l) = "Sym" THEN "Less"
       ELSE IF Tag(r) = "Sym" THEN "Greater"
       ELSE "Equal"

\* an associative node's children are kept in canonical order
IsSorted(s) == \A i \in 1..(Len(s) - 1) : Cmp(s[i], s[i + 1]) # "Greater"

\* the expressions the order is exercised on
OrdLeaves ==
  {Sym(<<"x">>), Sym(<<"y">>), Cte(<<"p","i">>), Cte(<<"e">>), Num(1), Num(2)}

OrdExprs ==
  OrdLeaves
  \cup {UExpr(m, a) : m \in {"Neg", "Fact"}, a \in OrdLeaves}
  \cup {BExpr("Pow", t, e) : t \in OrdLeaves, e \in OrdLeaves}
  \cup {Assoc(m, s) : m \in {"Add", "Mul"},
                      s \in {q \in SeqsUpTo(OrdLeaves, MaxAssocLen) : IsSorted(q)}}

\* ------------------------------------------------ occurs and substitute

\* Expr::free with the comparison alone: nothing below the root is looked at
ExprFreeShallow(e, o) == e # o

RECURSIVE ExprFree(_, _), AlgFree(_, _), AllFree(_, _)

AllFree(s, o) == \A i \in 1..Len(s) : ExprFree(s[i], o)

\* Algebra::free, Function::free: a compound delegates to its children
AlgFree(e, o) ==
  CASE Tag(e) = "U" -> ExprFree(e[3], o)
    [] Tag(e) = "B" -> ExprFree(e[3], o) /\ ExprFree(e[4], o)
    [] Tag(e) = "A" -> AllFree(e[3], o)
    [] Tag(e) = "Fun" -> AllFree(e[3], o)

\* Expr::free: an expression is never free of itself, a leaf is free of
\* anything else
ExprFree(e, o) ==
  IF e = o THEN FALSE
  ELSE IF Tag(e) \in {"Sym", "Cte", "Num"} THEN TRUE
  ELSE AlgFree(e, o)

RECURSIVE ExprSubs(_, _, _), AlgSubs(_, _, _)

\* Algebra::subs, Function::subs: the compound rebuilt with each child
\* substituted
AlgSubs(e, m, s) ==
  CASE Tag(e) = "U" -> UExpr(e[2], ExprSubs(e[3], m, s))
    [] Tag(e) = "B" -> BExpr(e[2], ExprSubs(e[3], m, s), ExprSubs(e[4], m, s))
    [] Tag(e) = "A" -> Assoc(e[2], [i \in 1..Len(e[3]) |-> ExprSubs(e[3][i], m, s)])
    [] Tag(e) = "Fun" -> Fun(e[2], [i \in 1..Len(e[3]) |-> ExprSubs(e[3][i], m, s)])

\* Expr::subs: the equality check, then the freeness check, then the rebuild
ExprSubs(e, m, s) ==
  IF e = m THEN s
  ELSE IF ExprFree(e, m) THEN e
  ELSE IF Tag(e) \in {"Sym", "Cte", "Num"} THEN s
  ELSE AlgSubs(e, m, s)

\* the expressions substitution is exercised on: patterns and replacements
\* up to one operator deep, subjects up to two
SubLeaves == {Sym(<<"x">>), Sym(<<"y">>), Num(1)}

SubShallow ==
  SubLeaves
  \cup {UExpr("Neg", a) : a \in SubLeaves}
  \cup {BExpr("Pow", t, e) : t \in SubLeaves, e \in SubLeaves}
  \cup {Assoc("Add", s) : s \in {q \in SeqsUpTo(SubLeaves, MaxAssocLen) : IsSorted(q)}}

SubDeep ==
  SubShallow
  \cup {UExpr("Neg", a) : a \in SubShallow}
  \cup {BExpr("Pow", t, e) : t \in SubShallow, e \in SubLeaves}
  \cup {Assoc("Add", <<a, b>>) : a \in SubLeaves, b \in SubShallow \ SubLeaves}

SubInit ==
  /\ subSt = "init"
  /\ subE \in SubDeep
  /\ subP \in SubShallow
  /\ subR \in SubShallow
  /\ subOut = ZERO
  /\ OrdIdle
  /\ LexIdle
  /\ ParIdle
  /\ IntIdle
  /\ SqIdle

\* e.subs(&p, &r) on the drawn triple
Substitute ==
  /\ subSt = "init"
  /\ subSt' = "done"
  /\ subOut' = ExprSubs(subE, subP, subR)
  /\ UNCHANGED <<subE, subP, subR, ordVars, lexVars, parVars, intVars, sqVars>>

SubNext == Substitute

SpecSubs == SubInit /\ [][SubNext]_vars

\* C2: whenever r.free(p) holds, e.subs(p, r) is free of p too, for leaf and
\* compound patterns p alike.
C2_SubsKeepsFree ==
  (subSt = "done" /\ ExprFree(subR, subP)) => ExprFree(subOut, subP)

\* ---------------------------------------------------------------- lexer
\* A source text is a sequence of characters (one-character strings); the
\* cursor and the spans are byte offsets into its UTF-8 encoding.

AsciiLetters ==
  {"a", "b", "c", "d", "e", "f", "g", "i", "m", "n", "o", "p", "r", "t", "u",
   "x", "y", "z", "D", "I", "P", "S"}

AsciiDigits == {"0", "1", "2", "3", "4", "5", "6", "7", "8", "9"}

\* alphabetic characters outside ASCII, named by code point (U+00E9 is e
\* with an acute accent): two bytes each in UTF-8
WideLetters == {"U+00E9"}

\* char::len_utf8
LenUtf8(c) == IF c \in WideLetters THEN 2 ELSE 1

\* char::is_whitespace
IsWhitespace(c) == c = " "

\* char::is_ascii_digit
IsAsciiDigit(c) == c \in AsciiDigits

\* char::is_alphabetic
IsAlphabetic(c) == c \in AsciiLetters \cup WideLetters

DigitVal(c) ==
  CASE c = "0" -> 0 [] c = "1" -> 1 [] c = "2" -> 2 [] c = "3" -> 3 [] c = "4" -> 4
    [] c = "5" -> 5 [] c = "6" -> 6 [] c = "7" -> 7 [] c = "8" -> 8 [] c = "9" -> 9

\* the token kind of a single-character operator or bracket
TokKindOf(c) ==
  CASE c = "=" -> "Eq" [] c = "+" -> "Add" [] c = "-" -> "Sub" [] c = "*" -> "Mul"
    [] c = "/" -> "Div" [] c = "^" -> "Pow" [] c = "!" -> "Fact"
    [] c = "(" -> "LPar" [] c = ")" -> "RPar" [] c = "[" -> "LSqr" [] c = "]" -> "RSqr"

SingleChars == {"=", "+", "-", "*", "/", "^", "!", "(", ")", "[", "]"}

RECURSIVE BytesOf(_, _, _)
\* the bytes of the characters src[from..to]
BytesOf(src, from, to) ==
  IF from > to THEN 0 ELSE LenUtf8(src[from]) + BytesOf(src, from + 1, to)

\* str::len
ByteLen(src) == BytesOf(src, 1, Len(src))

\* the byte offset at which character i starts (Len(src)+1: the end)
ByteAt(src, i) == BytesOf(src, 1, i - 1)

\* str::is_char_boundary
IsCharBoundary(src, b) == \E i \in 1..(Len(src) + 1) : ByteAt(src, i) = b

CharIndex(src, b) == CHOOSE i \in 1..(Len(src) + 1) : ByteAt(src, i) = b

\* &src[start..end], both on character boundaries
Slice(src, start, end) ==
  SubSeq(src, CharIndex(src, start), CharIndex(src, end) - 1)

\* the predicates handed to advance_while
Accepts(cls, c) ==
  IF cls = "digit" THEN IsAsciiDigit(c)
  ELSE IsAlphabetic(c) \/ IsAsciiDigit(c) \/ c = "_"

RECURSIVE TakeWhile(_, _, _)
\* chars().skip(..).take_while(predicate): the last character index taken,
\* scanning from character index i
TakeWhile(src, i, cls) ==
  IF i <= Len(src) /\ Accepts(cls, src[i]) THEN TakeWhile(src, i + 1, cls) ELSE i - 1

LexItem(ty, kind, text, val, start, end, cur) ==
  [ty |-> ty, kind |-> kind, text |-> text, val |-> val,
   start |-> start, end |-> end, cur |-> cur]

LexErr(cur) == LexItem("err", "Lex", <<>>, 0, 0, 0, cur)
LexPanic(cur) == LexItem("panic", "Panic", <<>>, 0, 0, 0, cur)
LexEof(cur) == LexItem("eof", "None", <<>>, 0, 0, 0, cur)

\* Lexer::advance_while: skip(self.cur) skips self.cur CHARACTERS of the
\* source, the cursor then grows by the byte length of every character taken;
\* slicing off a character boundary aborts
AdvanceWhile(src, cur, cls) ==
  LET first == cur + 1
      last == TakeWhile(src, first, cls)
      end == cur + BytesOf(src, first, last)
  IN IF end = cur THEN LexErr(cur)
     ELSE IF ~IsCharBoundary(src, end) THEN LexPanic(end)
     ELSE LexItem("tok", "text", Slice(src, cur, end), 0, cur, end, end)

RECURSIVE ParseU64(_)
\* str::parse::<u64> of a digit run (no run drawn here reaches 2^64)
ParseU64(text) ==
  IF text = <<>> THEN 0
  ELSE 10 * ParseU64(SubSeq(text, 1, Len(text) - 1)) + DigitVal(text[Len(text)])

\* Lexer::number
LexNumber(src, cur) ==
  LET r == AdvanceWhile(src, cur, "digit")
  IN IF r.ty = "tok" THEN [r EXCEPT !.kind = "Number", !.val = ParseU64(r.text)] ELSE r

\* Lexer::symbol
LexSymbol(src, cur) ==
  LET r == AdvanceWhile(src, cur, "ident")
  IN IF r.ty # "tok" THEN r
     ELSE IF r.text \in {<<"D","i","f","f">>, <<"I","n","t">>, <<"S","u","m">>,
                         <<"P","r","o","d">>}
          THEN [r EXCEPT !.kind = "Keyword"]
     ELSE [r EXCEPT !.kind = "Symbol"]

\* Lexer::tok: one character consumed by Lexer::advance
LexTok(src, cur, c) ==
  LexItem("tok", TokKindOf(c), <<c>>, 0, cur, cur + LenUtf8(c), cur + LenUtf8(c))

RECURSIVE LexerNext(_, _)
\* impl Iterator for Lexer::next, called with the cursor at cur
LexerNext(src, cur) ==
  IF cur = ByteLen(src) THEN LexEof(cur)
  ELSE IF ~IsCharBoundary(src, cur) THEN LexPanic(cur)
  ELSE LET c == src[CharIndex(src, cur)]
       IN IF c \in SingleChars THEN LexTok(src, cur, c)
          ELSE IF c \in AsciiDigits THEN LexNumber(src, cur)
          ELSE IF c \in AsciiLetters \/ c = "_" THEN LexSymbol(src, cur)
          ELSE IF IsWhitespace(c) THEN LexerNext(src, cur + LenUtf8(c))
          ELSE LexErr(cur)

\* the characters source texts for the lexer are drawn from
LexAlphabet == {"a", "1", "+", " ", "U+00E9", "#"}

LexInit ==
  /\ lexSt = "run"
  /\ lexSrc \in SeqsUpTo(LexAlphabet, MaxSrcLen)
  /\ lexCur = 0
  /\ lexOut = <<>>
  /\ OrdIdle
  /\ SubIdle
  /\ ParIdle
  /\ IntIdle
  /\ SqIdle

\* one call of Lexer::next: a token, an error, end of stream, or an abort
LexerStep ==
  /\ lexSt \in {"run", "err"}
  /\ Len(lexOut) < MaxItems
  /\ LET r == LexerNext(lexSrc, lexCur)
     IN /\ lexCur' = r.cur
        /\ lexSt' = CASE r.ty = "tok" -> "run" [] r.ty = "err" -> "err"
                      [] r.ty = "eof" -> "eof" [] r.ty = "panic" -> "panic"
        /\ lexOut' = IF r.ty \in {"tok", "err"} THEN Append(lexOut, r) ELSE lexOut
  /\ UNCHANGED <<lexSrc, ordVars, subVars, parVars, intVars, sqVars>>

LexNext == LexerStep

SpecLex == LexInit /\ [][LexNext]_vars

\* the bytes an emitted token's span covers
Covered(b) ==
  \E i \in 1..Len(lexOut) :
    lexOut[i].ty = "tok" /\ lexOut[i].start <= b /\ b < lexOut[i].end

\* C3: every emitted token has a non-empty span on character boundaries of
\* the input whose text is the input between them, the spans are strictly
\* increasing and disjoint, the scanned bytes no span covers are exactly the
\* whitespace, and the lexer never aborts on the way.
C3_SpansCoverInput ==
  /\ lexSt # "panic"
  /\ \A i \in 1..Len(lexOut) :
       lexOut[i].ty = "tok" =>
         /\ lexOut[i].start < lexOut[i].end
         /\ IsCharBoundary(lexSrc, lexOut[i].start)
         /\ IsCharBoundary(lexSrc, lexOut[i].end)
         /\ lexOut[i].text = Slice(lexSrc, lexOut[i].start, lexOut[i].end)
         /\ \A j \in 1..(i - 1) : lexOut[j].ty = "tok" => lexOut[j].end <= lexOut[i].start
  /\ \A k \in 1..Len(lexSrc) :
       ByteAt(lexSrc, k) < lexCur =>
         (IsWhitespace(lexSrc[k]) <=> ~Covered(ByteAt(lexSrc, k)))

\* --------------------------------------------------------------- parser
\* The parser reads the lexer through one token of lookahead; here every
\* parsing operator takes the source and the lexer's cursor and returns
\* [ok, val, cur]: the expression (or the error) and the cursor after it.

POk(v, cur) == [ok |-> TRUE, val |-> v, cur |-> cur]
PErr(kind, start, end, cur) == [ok |-> FALSE, val |-> <<"Err", kind, start, end>>, cur |-> cur]

\* the error an item of the lexer that is no token turns into
PErrOf(r) ==
  CASE r.ty = "err" -> PErr(r.kind, r.start, r.end, r.cur)
    [] r.ty = "eof" -> PErr("End", 0, 0, r.cur)
    [] r.ty = "panic" -> PErr("Panic", 0, 0, r.cur)

\* Parser::peek: the kind of the next token; a lexer error reads as no token
PeekKind(src, cur) ==
  LET r == LexerNext(src, cur) IN IF r.ty = "tok" THEN r.kind ELSE "None"

\* the operators' results, kept as written so that the grouping shows
NegOf(x) == UExpr("Neg", x)
FactOf(x) == UExpr("Fact", x)
AddOf(l, r) == Assoc("Add", <<l, r>>)
SubOf(l, r) == BExpr("Sub", l, r)
MulOf(l, r) == Assoc("Mul", <<l, r>>)
DivOf(l, r) == BExpr("Div", l, r)
PowOf(l, r) == BExpr("Pow", l, r)

\* Infix::eval
InfixEval(kind, l, r) ==
  CASE kind = "Add" -> AddOf(l, r)
    [] kind = "Sub" -> SubOf(l, r)
    [] kind = "Mul" -> MulOf(l, r)
    [] kind = "Div" -> DivOf(l, r)
    [] kind = "Pow" -> PowOf(l, r)

\* Op::dispatch: the token kinds that are infix or postfix operators
OpKinds == {"Add", "Sub", "Mul", "Div", "Pow", "Fact"}

\* Op::left_pred
LeftPred(kind) ==
  CASE kind \in {"Add", "Sub"} -> 1
    [] kind \in {"Mul", "Div"} -> 2
    [] kind = "Pow" -> 4
    [] kind = "Fact" -> 5

\* Op::side
Side(kind) == IF kind = "Pow" THEN "Right" ELSE "Left"

\* Op::right_pred with ^ taken for left-associative
RightPredAllLeft(kind) == LeftPred(kind) + 1

\* Op::right_pred
RightPred(kind) == IF Side(kind) = "Left" THEN LeftPred(kind) + 1 ELSE LeftPred(kind)

\* Primary::pred
PrimaryPred == 3

RECURSIVE ParsePrimary(_, _), ParseExpr(_, _, _), ExprLoop(_, _, _, _), ParseParenthesis(_, _)

\* Parser::parenthesis
ParseParenthesis(src, cur) ==
  LET Close(inner, rpar) ==
        IF rpar.ty # "tok" THEN PErrOf(rpar)
        ELSE IF rpar.kind = "RPar" THEN POk(inner.val, rpar.cur)
        ELSE PErr("ExpectedRPar", rpar.start, rpar.end, rpar.cur)
      Inner(inner) ==
        IF ~inner.ok THEN inner ELSE Close(inner, LexerNext(src, inner.cur))
      Open(open) == Inner(ParseExpr(src, open.cur, 0))
  IN Open(LexerNext(src, cur))

\* Parser::primary
ParsePrimary(src, cur) ==
  LET Prefix(t, rhs) ==
        IF ~rhs.ok THEN rhs
        ELSE IF t.kind = "Sub" THEN POk(NegOf(rhs.val), rhs.cur)
        ELSE rhs
      Dispatch(t) ==
        IF t.ty # "tok" THEN PErrOf(t)
        ELSE IF t.kind = "Number" THEN POk(Num(t.val), t.cur)
        ELSE IF t.kind = "Symbol" THEN POk(Sym(t.text), t.cur)
        ELSE IF t.kind = "Keyword" THEN PErr("Panic", t.start, t.end, cur)
        ELSE IF t.kind = "LPar" THEN ParseParenthesis(src, cur)
        ELSE IF t.kind \in {"Add", "Sub"}
             THEN Prefix(t, ParseExpr(src, t.cur, PrimaryPred))
        ELSE PErr("ExpectedPrimary", t.start, t.end, t.cur)
  IN Dispatch(LexerNext(src, cur))

\* the loop of Parser::expr, with lhs parsed so far
ExprLoop(src, cur, lhs, binding) ==
  LET Infix(t, rhs) ==
        IF ~rhs.ok THEN rhs
        ELSE ExprLoop(src, rhs.cur, InfixEval(t.kind, lhs, rhs.val), binding)
      Dispatch(t) ==
        IF t.ty = "panic" THEN PErrOf(t)
        ELSE IF t.ty # "tok" THEN POk(lhs, cur)
        ELSE IF t.kind \in {"Number", "Symbol", "LPar", "LSqr", "Keyword"}
             THEN PErr("ExpectedOperator", t.start, t.end, t.cur)
        ELSE IF t.kind \notin OpKinds THEN POk(lhs, cur)
        ELSE IF LeftPred(t.kind) < binding THEN POk(lhs, cur)
        ELSE IF t.kind = "Fact" THEN ExprLoop(src, t.cur, FactOf(lhs), binding)
        ELSE Infix(t, ParseExpr(src, t.cur, RightPred(t.kind)))
  IN Dispatch(LexerNext(src, cur))

\* Parser::expr
ParseExpr(src, cur, binding) ==
  LET Loop(lhs) == IF ~lhs.ok THEN lhs ELSE ExprLoop(src, lhs.cur, lhs.val, binding)
  IN Loop(ParsePrimary(src, cur))

\* Parser::root
ParseRoot(src, cur) ==
  LET Assign(lhs, rhs) ==
        IF ~rhs.ok THEN rhs ELSE POk(<<"Assign", lhs.val, rhs.val>>, rhs.cur)
      After(lhs, t) ==
        IF t.ty = "panic" THEN PErrOf(t)
        ELSE IF t.ty # "tok" THEN POk(<<"Expr", lhs.val>>, lhs.cur)
        ELSE IF t.kind = "Eq" THEN Assign(lhs, ParseExpr(src, t.cur, 0))
        ELSE PErr("ExpectedEq", t.start, t.end, t.cur)
      Root(lhs) == IF ~lhs.ok THEN lhs ELSE After(lhs, LexerNext(src, lhs.cur))
  IN Root(ParseExpr(src, cur, 0))

\* Parser::parse
ParserParse(src) == ParseRoot(src, 0)

\* the characters statement texts for the parser are drawn from
ParAlphabet == {"a", "2", "+", "-", "*", "/", "^", "!", "(", ")", "=", "#"}

ParInit ==
  /\ parSt = "init"
  /\ \E n \in 0..MaxStmtLen : parSrc \in [1..n -> ParAlphabet]
  /\ parOut = [ok |-> FALSE, val |-> <<"Err", "None", 0, 0>>, cur |-> 0]
  /\ OrdIdle
  /\ SubIdle
  /\ LexIdle
  /\ IntIdle
  /\ SqIdle

\* Parser::parse on the drawn text
ParseStep ==
  /\ parSt = "init"
  /\ parSt' = "done"
  /\ parOut' = ParserParse(parSrc)
  /\ UNCHANGED <<parSrc, ordVars, subVars, lexVars, intVars, sqVars>>

ParNext == ParseStep

SpecParse == ParInit /\ [][ParNext]_vars

\* ---------------------------------------------------------- interpreter
\* rules: Interpreter.env.0, a map from pattern to Rule.map;
\* defs:  Interpreter.env.1, a map from name to Definition [map, arg].

RECURSIVE IterRunDeclared(_)
\* the traversal with the children of a node pushed last to first, so that
\* they come off the stack in their declared order
IterRunDeclared(stack) ==
  IF stack = <<>> THEN <<>>
  ELSE LET curr == stack[Len(stack)]
           rest == SubSeq(stack, 1, Len(stack) - 1)
           kids == CASE Tag(curr) = "U" -> <<curr[3]>>
                     [] Tag(curr) = "B" -> <<curr[3], curr[4]>>
                     [] Tag(curr) = "A" -> curr[3]
                     [] OTHER -> <<>>
       IN <<curr>> \o IterRunDeclared(rest \o Rev(kids))

RECURSIVE IterRun(_)
\* impl Iterator for Iter: pop the last pushed, push its children in their
\* declared order; only algebraic nodes have their children pushed
IterRun(stack) ==
  IF stack = <<>> THEN <<>>
  ELSE LET curr == stack[Len(stack)]
           rest == SubSeq(stack, 1, Len(stack) - 1)
           kids == CASE Tag(curr) = "U" -> <<curr[3]>>
                     [] Tag(curr) = "B" -> <<curr[3], curr[4]>>
                     [] Tag(curr) = "A" -> curr[3]
                     [] OTHER -> <<>>
       IN <<curr>> \o IterRun(rest \o kids)

\* Expr::iter
IterSeq(e) == IterRun(<<e>>)

COk(e) == [ok |-> TRUE, val |-> e]
CErr(err) == [ok |-> FALSE, val |-> err]

ArityErr(name, expected, given) == <<"Err", "Arity", name, expected, given>>
Diverges == <<"Diverge">>

\* Interpreter::transform
Transform(acc, sub, R) ==
  IF sub \in DOMAIN R THEN ExprSubs(acc, sub, R[sub]) ELSE acc

RECURSIVE InstantiateSwapped(_, _, _)
\* the body with every actual replaced by its formal: the zip read backwards
InstantiateSwapped(body, formals, actuals) ==
  IF formals = <<>> \/ actuals = <<>> THEN body
  ELSE InstantiateSwapped(ExprSubs(body, Head(actuals), Head(formals)),
                          Tail(formals), Tail(actuals))

RECURSIVE Instantiate(_, _, _)
\* the loop of Interpreter::resolve over res.arg.iter().zip(arg.iter()):
\* formal i replaced by actual i, one pair after the other
Instantiate(body, formals, actuals) ==
  IF formals = <<>> \/ actuals = <<>> THEN body
  ELSE Instantiate(ExprSubs(body, Head(formals), Head(actuals)),
                   Tail(formals), Tail(actuals))

RECURSIVE Codegen(_, _, _, _), FoldRec(_, _, _, _, _), Resolve(_, _, _, _, _)

\* Interpreter::resolve
Resolve(acc, sub, R, D, fuel) ==
  IF Tag(sub) = "Fun" /\ sub[2] \in DOMAIN D
  THEN LET res == D[sub[2]]
       IN IF Len(sub[3]) # Len(res.arg)
          THEN CErr(ArityErr(sub[2], Len(res.arg), Len(sub[3])))
          ELSE Codegen(ExprSubs(acc, sub, Instantiate(res.map, res.arg, sub[3])),
                       R, D, fuel - 1)
  ELSE COk(acc)

\* the fold of Interpreter::codegen over the subterms still to visit: the
\* closure returns the accumulator's error, else resolve(transform(acc, sub))
FoldRec(todo, acc, R, D, fuel) ==
  IF todo = <<>> THEN acc
  ELSE IF ~acc.ok THEN acc
  ELSE FoldRec(Tail(todo), Resolve(Transform(acc.val, Head(todo), R), Head(todo), R, D, fuel),
               R, D, fuel)

\* Interpreter::codegen; a pass nested deeper than MaxFuel does not return
Codegen(lhs, R, D, fuel) ==
  IF fuel < 0 THEN CErr(Diverges)
  ELSE FoldRec(IterSeq(lhs), COk(lhs), R, D, fuel)

\* HashMap::insert
Insert(m, k, v) == [x \in (DOMAIN m) \cup {k} |-> IF x = k THEN v ELSE m[x]]

IOut(res, R, D) == [res |-> res, rules |-> R, defs |-> D]

\* Interpreter::eval with a rule stored as declared before any of its checks
InterpEvalStoreFirst(ast, R, D) ==
  LET Done(v) == IOut(IF v.ok THEN <<"OkSome", v.val>> ELSE v.val, R, D)
      Stored(p, v) ==
        IOut(IF v.ok THEN <<"OkNone">> ELSE v.val,
             Insert(R, p, IF v.ok THEN v.val ELSE ast[3]), D)
  IN CASE ast[1] = "Expr" -> Done(Codegen(ast[2], R, D, MaxFuel))
       [] ast[1] = "Rule" ->
            IF Tag(ast[2]) = "Num"
            THEN IOut(<<"Err", "RuleShape">>, Insert(R, ast[2], ast[3]), D)
            ELSE IF ExprFree(ast[3], ast[2])
                 THEN Stored(ast[2], Codegen(ast[3], R, D, MaxFuel))
            ELSE IOut(<<"Err", "Rec">>, Insert(R, ast[2], ast[3]), D)
       [] ast[1] = "Def" ->
            IF Tag(ast[2]) = "Fun"
            THEN IOut(<<"OkNone">>, R, Insert(D, ast[2][2], [map |-> ast[3], arg |-> ast[2][3]]))
            ELSE IOut(<<"Err", "DefShape">>, R, D)

\* Interpreter::eval: the result and the two tables after it
InterpEval(ast, R, D) ==
  LET Done(v) == IOut(IF v.ok THEN <<"OkSome", v.val>> ELSE v.val, R, D)
      Stored(p, v) ==
        IF v.ok THEN IOut(<<"OkNone">>, Insert(R, p, v.val), D) ELSE IOut(v.val, R, D)
  IN
  CASE ast[1] = "Expr" -> Done(Codegen(ast[2], R, D, MaxFuel))
    [] ast[1] = "Rule" ->
         IF Tag(ast[2]) = "Num" THEN IOut(<<"Err", "RuleShape">>, R, D)
         ELSE IF ExprFree(ast[3], ast[2])
              THEN Stored(ast[2], Codegen(ast[3], R, D, MaxFuel))
         ELSE IOut(<<"Err", "Rec">>, R, D)
    [] ast[1] = "Def" ->
         IF Tag(ast[2]) = "Fun"
         THEN IOut(<<"OkNone">>, R, Insert(D, ast[2][2], [map |-> ast[3], arg |-> ast[2][3]]))
         ELSE IOut(<<"Err", "DefShape">>, R, D)

\* the statement an assignment stands for, by the shape of its left side: a
\* function application declares a definition, anything else a rule
AstOf(parsed) ==
  IF parsed[1] = "Assign"
  THEN IF Tag(parsed[2]) = "Fun" THEN <<"Def", parsed[2], parsed[3]>>
       ELSE <<"Rule", parsed[2], parsed[3]>>
  ELSE parsed

\* Interpreter::parse: [ast, res, rules, defs]
InterpParse(stmt, R, D) ==
  IF stmt = <<>> THEN [ast |-> <<"NoAst">>] @@ IOut(<<"OkNone">>, R, D)
  ELSE LET Eval(ast) == [ast |-> ast] @@ InterpEval(ast, R, D)
           Parsed(parsed) ==
             IF ~parsed.ok THEN [ast |-> <<"NoAst">>] @@ IOut(parsed.val, R, D)
             ELSE Eval(AstOf(parsed.val))
       IN Parsed(ParserParse(stmt))

\* the statements and syntax trees the interpreter is handed
SymX == Sym(<<"x">>)
SymY == Sym(<<"y">>)
NameF == <<"f">>
NameG == <<"g">>
NameH == <<"h">>

StmtTexts ==
  { <<>>,
    <<"x">>,
    <<"x", "+", "1">>,
    <<"y">>,
    <<"x", "+", "y">>,
    <<"x", "^", "2", "+", "y">>,
    <<"x", "=", "2">>,
    <<"y", " ", "=", " ", "x">>,
    <<"x", "=", "y">>,
    <<"x", "=", "x", "+", "1">>,
    <<"x", "=", "x">>,
    <<"2", "=", "x">>,
    <<"x", "+">>,
    <<"x", " ", "#">>,
    <<"f", "(", "x", ")", " ", "=", " ", "x", "^", "2">>,
    <<"f", "(", "3", ")">> }

AstInputs ==
  { <<"Def", Fun(NameF, <<SymX>>), PowOf(SymX, Num(2))>>,
    <<"Def", Fun(NameF, <<SymX, SymY>>), PowOf(SymX, SymY)>>,
    <<"Def", Fun(NameG, <<SymX>>), Fun(NameG, <<SymX>>)>>,
    <<"Def", SymX, Num(1)>>,
    <<"Def", Fun(NameH, <<SymX>>), Num(1)>>,
    <<"Def", Fun(NameF, <<SymX>>), AddOf(Fun(NameH, <<Num(1)>>), SymY)>>,
    <<"Rule", SymY, Fun(NameF, <<Num(3)>>)>>,
    <<"Expr", Fun(NameF, <<Num(3)>>)>>,
    <<"Expr", Fun(NameF, <<Num(1), Num(2)>>)>>,
    <<"Expr", Fun(NameF, <<SymY, Num(1)>>)>>,
    <<"Expr", Fun(NameG, <<Num(1)>>)>>,
    <<"Expr", AddOf(SymX, Fun(NameF, <<Num(3)>>))>>,
    <<"Rule", SymY, Fun(NameF, <<Num(1), Num(2)>>)>>,
    <<"Rule", SymY, PowOf(SymX, Num(2))>>,
    <<"Rule", PowOf(SymX, Num(2)), SymY>>,
    <<"Rule", Num(2), SymX>> }

IntInit ==
  /\ intSt = "ready"
  /\ rules = <<>>
  /\ defs = <<>>
  /\ nStmts = 0
  /\ lastStmt = <<"none">>
  /\ lastAst = <<"NoAst">>
  /\ lastRes = <<"none">>
  /\ OrdIdle
  /\ SubIdle
  /\ LexIdle
  /\ ParIdle
  /\ SqIdle

\* what a call leaves behind: a pass that does not return leaves the
\* interpreter inside the call for good
Returned(ast, out) ==
  /\ lastAst' = ast
  /\ lastRes' = out.res
  /\ intSt' = IF out.res = Diverges THEN "hung" ELSE "ready"
  /\ rules' = out.rules
  /\ defs' = out.defs
  /\ nStmts' = nStmts + 1

\* Interpreter::parse on a statement text
ParseStmt ==
  /\ intSt = "ready"
  /\ nStmts < MaxStmts
  /\ \E stmt \in StmtTexts :
       /\ lastStmt' = <<"text", stmt>>
       /\ \E out \in {InterpParse(stmt, rules, defs)} : Returned(out.ast, out)
  /\ UNCHANGED <<ordVars, subVars, lexVars, parVars, sqVars>>

\* Interpreter::eval on a syntax tree
EvalAst ==
  /\ intSt = "ready"
  /\ nStmts < MaxStmts
  /\ \E ast \in AstInputs :
       /\ lastStmt' = <<"ast">>
       /\ Returned(ast, InterpEval(ast, rules, defs))
  /\ UNCHANGED <<ordVars, subVars, lexVars, parVars, sqVars>>

IntNext == ParseStmt \/ EvalAst

SpecInterp == IntInit /\ [][IntNext]_vars

OrdInit ==
  /\ ordSt = "init"
  /\ ordA \in OrdExprs
  /\ ordB \in OrdExprs
  /\ ordAB = "none"
  /\ ordBA = "none"
  /\ SubIdle
  /\ LexIdle
  /\ ParIdle
  /\ IntIdle
  /\ SqIdle

\* a.cmp(&b) and b.cmp(&a) on the drawn pair
Compare ==
  /\ ordSt = "init"
  /\ ordSt' = "done"
  /\ ordAB' = Cmp(ordA, ordB)
  /\ ordBA' = Cmp(ordB, ordA)
  /\ UNCHANGED <<ordA, ordB, subVars, lexVars, parVars, intVars, sqVars>>

OrdNext == Compare

SpecOrd == OrdInit /\ [][OrdNext]_vars

\* --------------------------------------------------- sequence evaluator
\* <<"Rat", n, d>> is Expr::Num(Number::Q(n, d)), an exact ratio.

\* largest upper bound of the drawn sequences
MaxUp == 3

Rat(n, d) == <<"Rat", n, d>>

\* Tree::sequence_order
Sq(map, idx, lo, up, arg) == <<"Sq", map, idx, lo, up, arg>>

TOk(e) == [ok |-> TRUE, val |-> e]
TErr(e) == [ok |-> FALSE, val |-> <<"Err", "Num", e>>]

\* Sequence::algebra
AlgebraOf(map) == IF map = "Sum" THEN "Add" ELSE "Mul"

\* the identity of an associative operator
IdentityOf(alg) == IF alg = "Add" THEN 0 ELSE 1

RECURSIVE FoldNums(_, _)
\* the sum or the product of a sequence of integer literals
FoldNums(alg, s) ==
  IF s = <<>> THEN IdentityOf(alg)
  ELSE IF alg = "Add" THEN Head(s)[2] + FoldNums(alg, Tail(s))
  ELSE Head(s)[2] * FoldNums(alg, Tail(s))

RECURSIVE Trivial(_), TrivialAll(_)

\* the children normalised first to last, the first failure returned
TrivialAll(s) ==
  LET Both(h, t) ==
        IF ~h.ok THEN h ELSE IF ~t.ok THEN t ELSE TOk(<<h.val>> \o t.val)
  IN IF s = <<>> THEN TOk(<<>>) ELSE Both(Trivial(Head(s)), TrivialAll(Tail(s)))

\* Expr::trivial: a leaf is itself, a number normalises itself and fails on
\* a zero denominator, a compound normalises its children and hands their
\* failure on; an associative node of integer literals only is their sum or
\* product, the empty one the operator's identity
Trivial(e) ==
  LET One(a) == IF a.ok THEN TOk(UExpr(e[2], a.val)) ELSE a
      Two(k) == IF k.ok THEN TOk(BExpr(e[2], k.val[1], k.val[2])) ELSE k
      Many(k) ==
        IF ~k.ok THEN k
        ELSE IF \A i \in 1..Len(k.val) : Tag(k.val[i]) = "Num"
             THEN TOk(Num(FoldNums(e[2], k.val)))
        ELSE TOk(Assoc(e[2], k.val))
  IN CASE Tag(e) \in {"Sym", "Cte", "Num"} -> TOk(e)
       [] Tag(e) = "Rat" -> IF e[3] = 0 THEN TErr(e) ELSE TOk(e)
       [] Tag(e) = "U" -> One(Trivial(e[3]))
       [] Tag(e) = "B" -> Two(TrivialAll(<<e[3], e[4]>>))
       [] Tag(e) = "A" -> Many(TrivialAll(e[3]))

\* Tree::evaluate: the tree with a symbol replaced by a value
Evaluate(e, m, s) == ExprSubs(e, m, s)

RECURSIVE UnrollExclusive(_, _, _, _)
\* the terms over l..u, the upper bound left out
UnrollExclusive(arg, idx, l, u) ==
  IF l >= u THEN <<>>
  ELSE <<Evaluate(arg, Sym(idx), Num(l))>> \o UnrollExclusive(arg, idx, l + 1, u)

RECURSIVE Unroll(_, _, _, _)
\* (l..=u).map(|i| arg.clone().evaluate(Tree::Sym(idx), Tree::from(i)))
Unroll(arg, idx, l, u) ==
  IF l > u THEN <<>>
  ELSE <<Evaluate(arg, Sym(idx), Num(l))>> \o Unroll(arg, idx, l + 1, u)

\* Sequence::sq_trivial: the result, and the terms collected on the way
SqTrivial(sq) ==
  LET Out(r, terms) == [ok |-> r.ok, val |-> r.val, terms |-> terms]
      Terms(terms) == Out(Trivial(Assoc(AlgebraOf(sq[2]), terms)), terms)
      Bounds(arg, lo, up) ==
        IF ~lo.ok THEN Out(lo, <<>>)
        ELSE IF ~up.ok THEN Out(up, <<>>)
        ELSE IF Tag(lo.val) = "Num" /\ Tag(up.val) = "Num"
             THEN Terms(Unroll(arg.val, sq[3], lo.val[2], up.val[2]))
        ELSE Out(TOk(Sq(sq[2], sq[3], lo.val, up.val, arg.val)), <<>>)
      Body(arg) ==
        IF ~arg.ok THEN Out(arg, <<>>)
        ELSE Bounds(arg, Trivial(sq[4]), Trivial(sq[5]))
  IN Body(Trivial(sq[6]))

IdxI == <<"i">>
SymI == Sym(IdxI)
SymN == Sym(<<"n">>)

\* the bounds drawn: integer literals, a sum that normalises to one, a
\* symbol, a ratio, and a ratio that does not normalise
SqLows ==
  {Num(n) : n \in {-1, 0, 1, 2, MaxUp + 2}}
  \cup {SymN, Rat(1, 2), Rat(2, 0), Assoc("Add", <<Num(1), Num(1)>>)}

SqUps ==
  {Num(n) : n \in 0..MaxUp}
  \cup {SymN, Rat(3, 0), Assoc("Add", <<Num(1), Num(2)>>)}

SqBodies ==
  { SymI, SymX, Num(2), PowOf(SymI, Num(2)), AddOf(SymI, SymX), NegOf(SymI),
    AddOf(SymI, Num(1)), Rat(1, 0), AddOf(SymI, Rat(1, 0)) }

SqInit ==
  /\ sqSt = "init"
  /\ sqIn \in {Sq(m, IdxI, lo, up, f) :
                 m \in {"Sum", "Prod"}, lo \in SqLows, up \in SqUps, f \in SqBodies}
  /\ sqTerms = <<>>
  /\ sqOut = [ok |-> TRUE, val |-> ZERO]
  /\ OrdIdle
  /\ SubIdle
  /\ LexIdle
  /\ ParIdle
  /\ IntIdle

Normalized(r) ==
  /\ sqSt' = "done"
  /\ sqTerms' = r.terms
  /\ sqOut' = [ok |-> r.ok, val |-> r.val]

\* sq.sq_trivial() on the drawn sequence
SqNormalize ==
  /\ sqSt = "init"
  /\ Normalized(SqTrivial(sqIn))
  /\ UNCHANGED <<sqIn, ordVars, subVars, lexVars, parVars, intVars>>

SqNext == SqNormalize

SpecSq == SqInit /\ [][SqNext]_vars

\* ------------------------------------------------- C4: operand grouping

Chars(src) == {src[i] : i \in 1..Len(src)}

IsBinary(e) == Tag(e) \in {"A", "B"}
LeftKid(e) == IF Tag(e) = "A" THEN e[3][1] ELSE e[3]
RightKid(e) == IF Tag(e) = "A" THEN e[3][2] ELSE e[4]

\* the binding power the claim gives each operator of a parsed tree
PowerOf(e) ==
  CASE e[2] \in {"Add", "Sub"} -> 1
    [] e[2] \in {"Mul", "Div"} -> 2
    [] e[2] = "Neg" -> 3
    [] e[2] = "Pow" -> 4
    [] e[2] = "Fact" -> 5

OpChar(e) ==
  CASE e[2] = "Add" -> "+" [] e[2] = "Sub" -> "-" [] e[2] = "Mul" -> "*"
    [] e[2] = "Div" -> "/" [] e[2] = "Pow" -> "^" [] e[2] = "Neg" -> "-"
    [] e[2] = "Fact" -> "!"

Min(x, y) == IF x < y THEN x ELSE y

RECURSIVE DigitsOf(_)
DigitsOf(n) ==
  LET d == CHOOSE c \in AsciiDigits : DigitVal(c) = n % 10
  IN IF n < 10 THEN <<d>> ELSE Append(DigitsOf(n \div 10), d)

RECURSIVE Yield(_)
\* the tokens of a parsed tree, left to right
Yield(e) ==
  CASE Tag(e) = "Sym" -> e[2]
    [] Tag(e) = "Num" -> DigitsOf(e[2])
    [] Tag(e) = "U" /\ e[2] = "Neg" -> <<"-">> \o Yield(e[3])
    [] Tag(e) = "U" /\ e[2] = "Fact" -> Yield(e[3]) \o <<"!">>
    [] OTHER -> Yield(LeftKid(e)) \o <<OpChar(e)>> \o Yield(RightKid(e))

RECURSIVE RightMin(_)
\* the weakest operator on the right edge of a tree (9: none)
RightMin(e) ==
  CASE Tag(e) \in {"Sym", "Num"} -> 9
    [] Tag(e) = "U" /\ e[2] = "Fact" -> 5
    [] Tag(e) = "U" /\ e[2] = "Neg" -> Min(3, RightMin(e[3]))
    [] OTHER -> Min(PowerOf(e), RightMin(RightKid(e)))

RECURSIVE LeftMin(_)
\* the weakest operator on the left edge of a tree; a prefix minus starts
\* its own primary and hides what follows it
LeftMin(e) ==
  CASE Tag(e) \in {"Sym", "Num"} -> 9
    [] Tag(e) = "U" /\ e[2] = "Fact" -> Min(5, LeftMin(e[3]))
    [] Tag(e) = "U" /\ e[2] = "Neg" -> 9
    [] OTHER -> Min(PowerOf(e), LeftMin(LeftKid(e)))

RECURSIVE Grouped(_)
\* every operator of the tree holds operands that bind at least as tightly
\* as the table asks: left-associative operators take an equal power on the
\* left only, ^ on the right only, a prefix minus takes powers and
\* factorials, a factorial takes the nearest operand
Grouped(e) ==
  CASE Tag(e) \in {"Sym", "Num"} -> TRUE
    [] Tag(e) = "U" /\ e[2] = "Fact" -> RightMin(e[3]) >= 5 /\ Grouped(e[3])
    [] Tag(e) = "U" /\ e[2] = "Neg" -> LeftMin(e[3]) >= 3 /\ Grouped(e[3])
    [] OTHER ->
       /\ Grouped(LeftKid(e))
       /\ Grouped(RightKid(e))
       /\ IF e[2] = "Pow"
          THEN RightMin(LeftKid(e)) > 4 /\ LeftMin(RightKid(e)) >= 4
          ELSE RightMin(LeftKid(e)) >= PowerOf(e) /\ LeftMin(RightKid(e)) > PowerOf(e)

\* a + where an operand is expected is dropped by the parser
HasUnaryPlus(src) ==
  \E i \in 1..Len(src) :
    src[i] = "+" /\ (i = 1 \/ src[i - 1] \in {"+", "-", "*", "/", "^", "(", "="})

C4_Examples ==
  /\ ParserParse(<<"-", "2", "^", "2">>).val = <<"Expr", NegOf(PowOf(Num(2), Num(2)))>>
  /\ ParserParse(<<"2", "^", "3", "^", "2">>).val
       = <<"Expr", PowOf(Num(2), PowOf(Num(3), Num(2)))>>
  /\ ParserParse(<<"2", "+", "3", "*", "4">>).val
       = <<"Expr", AddOf(Num(2), MulOf(Num(3), Num(4)))>>
  /\ ParserParse(<<"a", "-", "b", "-", "c">>).val
       = <<"Expr", SubOf(SubOf(Sym(<<"a">>), Sym(<<"b">>)), Sym(<<"c">>))>>

\* C4: a successfully parsed expression of well-formed tokens without
\* parentheses is grouped by
\* binding power (factorial 5 > power 4 > unary minus 3 > mul/div 2 >
\* add/sub 1, equal powers to the left except ^ to the right) and keeps the
\* tokens in their order; the claim's four examples parse as it says.
C4_GroupsByBindingPower ==
  /\ (parSt = "done" /\ parOut.ok /\ parOut.val[1] = "Expr"
        /\ Chars(parSrc) \cap {"(", ")", "#"} = {})
       => /\ Grouped(parOut.val[2])
          /\ ~HasUnaryPlus(parSrc) => Yield(parOut.val[2]) = parSrc
  /\ C4_Examples

C4_Witness ==
  /\ parSt = "done"
  /\ parSrc = <<"-", "a", "^", "2", "!">>
  /\ parOut.ok
  /\ parOut.val = <<"Expr", NegOf(PowOf(Sym(<<"a">>), FactOf(Num(2))))>>

\* C8: parsing fails whenever the lexer fails on a character of the
\* statement: no tree built from the text before the failing token is
\* returned.
C8_LexErrorFailsParse ==
  (parSt = "done" /\ "#" \in Chars(parSrc)) => ~parOut.ok

\* ------------------------------------------------- statements and tables

TextDeclF == <<"f", "(", "x", ")", " ", "=", " ", "x", "^", "2">>
TextApplyF == <<"f", "(", "3", ")">>
SquareDef == [map |-> PowOf(SymX, Num(2)), arg |-> <<SymX>>]

\* C5: through Interpreter::parse, the text `f(x) = x^2` succeeds with no
\* result and leaves a definition of f with one formal parameter, and the
\* text `f(3)` handed in after it evaluates successfully to 9 (3^2 where
\* the operators' results are kept as written).
C5_DeclareThenApply ==
  /\ lastStmt = <<"text", TextDeclF>>
       => /\ lastRes = <<"OkNone">>
          /\ NameF \in DOMAIN defs
          /\ Len(defs[NameF].arg) = 1
  /\ (/\ lastStmt = <<"text", TextApplyF>>
      /\ NameF \in DOMAIN defs
      /\ defs[NameF] = SquareDef
      /\ DOMAIN rules = {})
       => lastRes \in {<<"OkSome", Num(9)>>, <<"OkSome", PowOf(Num(3), Num(2))>>}

\* the children of a compound, none for a leaf
Kids(e) ==
  CASE Tag(e) = "U" -> <<e[3]>>
    [] Tag(e) = "B" -> <<e[3], e[4]>>
    [] Tag(e) \in {"A", "Fun"} -> e[3]
    [] OTHER -> <<>>

RECURSIVE Occurs(_, _)
\* p equals v or occurs anywhere inside v
Occurs(p, v) == p = v \/ \E i \in 1..Len(Kids(v)) : Occurs(p, Kids(v)[i])

\* a step that evaluated a rule declaration
IsRuleStep == nStmts' = nStmts + 1 /\ lastAst'[1] = "Rule"

RuleStored(p, w) ==
  /\ w.ok
  /\ lastRes' = <<"OkNone">>
  /\ rules' = Insert(rules, p, w.val)

RuleAsClaimed(p, v) ==
  IF Tag(p) = "Num" THEN lastRes' = <<"Err", "RuleShape">>
  ELSE IF Occurs(p, v) THEN lastRes' = <<"Err", "Rec">>
  ELSE RuleStored(p, Codegen(v, rules, defs, MaxFuel))

RuleRewritten(p, w) ==
  IF w.ok THEN lastRes' = <<"OkNone">> /\ rules' = Insert(rules, p, w.val)
  ELSE lastRes' = w.val /\ rules' = rules

RuleAsCoded(p, v) ==
  IF Tag(p) = "Num" THEN lastRes' = <<"Err", "RuleShape">> /\ rules' = rules
  ELSE IF Occurs(p, v) THEN lastRes' = <<"Err", "Rec">> /\ rules' = rules
  ELSE RuleRewritten(p, Codegen(v, rules, defs, MaxFuel))

\* C6 as stated: a rule declaration with pattern p and value v fails with
\* the rule-shape error when p is a numeric literal, else with the
\* recursive-rule error exactly when p equals v or occurs inside v, else it
\* succeeds with no result and stores p mapped to the rewrite pass of v.
C6_RuleDeclaration ==
  [][IsRuleStep => RuleAsClaimed(lastAst'[2], lastAst'[3])]_vars

\* C6 amended: as above, except that in the last case the rewrite pass of v
\* may itself fail; the declaration then fails with that error and stores
\* nothing, and only a value that rewrites is stored.
C6_RuleDeclarationOrRewriteError ==
  [][IsRuleStep => RuleAsCoded(lastAst'[2], lastAst'[3])]_vars

\* a rule whose value did not rewrite: f takes one argument and is given two
C6_Witness ==
  /\ lastAst = <<"Rule", SymY, Fun(NameF, <<Num(1), Num(2)>>)>>
  /\ lastRes = ArityErr(NameF, 1, 2)
  /\ SymY \notin DOMAIN rules

\* one entry of a table inserted or replaced, every other entry kept
OneEntry(old, new, k) ==
  /\ DOMAIN new = DOMAIN old \cup {k}
  /\ \A x \in DOMAIN old \ {k} : new[x] = old[x]

TablesFrame ==
  /\ DOMAIN rules \subseteq DOMAIN rules'
  /\ DOMAIN defs \subseteq DOMAIN defs'
  /\ rules' # rules
       => /\ lastAst'[1] = "Rule"
          /\ lastRes' = <<"OkNone">>
          /\ defs' = defs
          /\ OneEntry(rules, rules', lastAst'[2])
  /\ defs' # defs
       => /\ lastAst'[1] = "Def"
          /\ lastRes' = <<"OkNone">>
          /\ rules' = rules
          /\ OneEntry(defs, defs', lastAst'[2][2])
  /\ (lastRes' # <<"OkNone">> \/ lastAst'[1] \notin {"Rule", "Def"})
       => rules' = rules /\ defs' = defs

\* C7: the two tables change only in a step that is a successful rule
\* declaration (one rule entry inserted or replaced, definitions unchanged)
\* or a successful definition declaration (one definition entry inserted or
\* replaced, rules unchanged); every other statement, failing or not, leaves
\* both unchanged, and no entry is ever removed.
C7_TablesChangeOnlyOnSuccess == [][TablesFrame]_vars

\* both tables hold an entry and the last statement was a refused rule
C7_Witness ==
  /\ DOMAIN rules # {}
  /\ DOMAIN defs # {}
  /\ lastAst[1] = "Rule"
  /\ lastRes = <<"Err", "Rec">>

IsKnownCall(e, D) == Tag(e) = "Fun" /\ e[2] \in DOMAIN D

\* the places of the traversal that hold an application of a defined name
KnownAt(seq, D) == {i \in 1..Len(seq) : IsKnownCall(seq[i], D)}

FirstKnown(seq, D) ==
  seq[CHOOSE i \in KnownAt(seq, D) : \A j \in KnownAt(seq, D) : i <= j]

Mismatch(c, D) == Len(c[3]) # Len(D[c[2]].arg)

\* formal 1 replaced by actual 1 in the body, then formal 2 by actual 2 in
\* what that gave
Sequential(body, formals, actuals) ==
  IF Len(formals) = 0 THEN body
  ELSE IF Len(formals) = 1 THEN ExprSubs(body, formals[1], actuals[1])
  ELSE ExprSubs(ExprSubs(body, formals[1], actuals[1]), formals[2], actuals[2])

NoCall(seq) == \A i \in 1..Len(seq) : Tag(seq[i]) # "Fun"

ExpandsTo(inst) == NoCall(IterSeq(inst)) => lastRes = <<"OkSome", inst>>

PassAsClaimed(e, seq) ==
  /\ (KnownAt(seq, defs) = {} /\ \A i \in 1..Len(seq) : seq[i] \notin DOMAIN rules)
       => lastRes = <<"OkSome", e>>
  /\ (\E i \in KnownAt(seq, defs) : Mismatch(seq[i], defs))
       => lastRes[1] # "OkSome"
  /\ (KnownAt(seq, defs) # {} /\ Mismatch(FirstKnown(seq, defs), defs))
       => lastRes = ArityErr(FirstKnown(seq, defs)[2],
                             Len(defs[FirstKnown(seq, defs)[2]].arg),
                             Len(FirstKnown(seq, defs)[3]))
  /\ (IsKnownCall(e, defs) /\ ~Mismatch(e, defs) /\ DOMAIN rules = {}
        /\ Len(e[3]) <= 2)
       => ExpandsTo(Sequential(defs[e[2]].map, defs[e[2]].arg, e[3]))
  /\ (lastRes[1] = "Err" /\ lastRes[2] = "Arity")
       => /\ lastRes[3] \in DOMAIN defs
          /\ lastRes[4] = Len(defs[lastRes[3]].arg)
          /\ lastRes[5] # lastRes[4]

\* C9: in the rewrite pass of a bare expression, a visited application of a
\* defined name whose argument count differs from the stored parameter
\* count fails the evaluation with an error naming the function, the
\* expected and the given count; with equal counts the formals are replaced
\* by the actuals pairwise in declared order, one after the other, and no
\* arity error is raised; an application of an undefined name is left
\* untouched and raises no error.
C9_ArityAndInstantiation ==
  (lastAst[1] = "Expr" /\ lastRes # <<"none">>)
    => PassAsClaimed(lastAst[2], IterSeq(lastAst[2]))

\* f of two parameters applied to (y, 1): x^y becomes y^y, then 1^1
C9_Witness ==
  /\ lastAst = <<"Expr", Fun(NameF, <<SymY, Num(1)>>)>>
  /\ DOMAIN rules = {}
  /\ lastRes = <<"OkSome", PowOf(Num(1), Num(1))>>

\* ------------------------------------------------------------ sequences

\* the k-th term of the range starting at l
TermAt(f, idx, l, k) == ExprSubs(f, Sym(idx), Num(l + k - 1))

UnrolledAsClaimed(alg, idx, f, l, u) ==
  /\ Len(sqTerms) = (IF u - l + 1 > 0 THEN u - l + 1 ELSE 0)
  /\ \A k \in 1..Len(sqTerms) : sqTerms[k] = TermAt(f, idx, l, k)
  /\ sqOut = Trivial(Assoc(alg, sqTerms))
  /\ l > u => sqOut = TOk(Num(IdentityOf(alg)))

KeptAsClaimed(map, idx, lo, up, f) ==
  IF Tag(lo) = "Num" /\ Tag(up) = "Num"
  THEN UnrolledAsClaimed(AlgebraOf(map), idx, f, lo[2], up[2])
  ELSE sqTerms = <<>> /\ sqOut = TOk(Sq(map, idx, lo, up, f))

SqAsClaimed(map, idx, lo, up, f) ==
  IF ~f.ok \/ ~lo.ok \/ ~up.ok
  THEN /\ sqTerms = <<>>
       /\ sqOut = (IF ~f.ok THEN f ELSE IF ~lo.ok THEN lo ELSE up)
  ELSE KeptAsClaimed(map, idx, lo.val, up.val, f.val)

SqExamples ==
  /\ sqIn = Sq("Sum", IdxI, Num(1), Num(3), SymI) => sqOut = TOk(Num(6))
  /\ sqIn = Sq("Sum", IdxI, Num(5), Num(1), SymI) => sqOut = TOk(Num(0))
  /\ sqIn = Sq("Prod", IdxI, Num(1), Num(3), SymI) => sqOut = TOk(Num(6))

\* C10: a Sum or Product over index i whose normalised bounds are integer
\* literals l and u is the normalisation of one Add or Mul node of exactly
\* max(0, u-l+1) terms, the k-th the normalised body with i replaced by
\* l+k-1, ascending, and none when l > u (0 for Sum, 1 for Product); with a
\* bound that is no integer literal it is a Sequence node of the same
\* operator and index over the normalised bounds and body, nothing
\* unrolled; a failure to normalise the body, the lower or the upper bound
\* is returned as it is and no node is built.
C10_SequenceUnrolls ==
  sqSt = "done"
    => /\ SqAsClaimed(sqIn[2], sqIn[3], Trivial(sqIn[4]), Trivial(sqIn[5]),
                      Trivial(sqIn[6]))
       /\ SqExamples

\* Prod(i, 1, 3, i^2): three terms, kept as a product of powers
C10_Witness ==
  /\ sqSt = "done"
  /\ sqIn = Sq("Prod", IdxI, Num(1), Num(3), PowOf(SymI, Num(2)))
  /\ Len(sqTerms) = 3
  /\ sqOut = TOk(Assoc("Mul", <<PowOf(Num(1), Num(2)), PowOf(Num(2), Num(2)),
                                PowOf(Num(3), Num(2))>>))

\* ------------------------------------------------------ lexer progress

\* C11: the cursor never moves backwards, and every call of Lexer::next
\* that returns an item, a token or an error, moves it strictly forwards,
\* so that the items of a text are finitely many and an unrecognised
\* character is not reported again and again.
C11_LexerAdvances ==
  [][/\ lexCur' >= lexCur
     /\ Len(lexOut') > Len(lexOut) => lexCur' > lexCur]_vars

\* ------------------------------------------------------- the rule fold

RECURSIVE Flatten(_)
Flatten(ss) == IF ss = <<>> THEN <<>> ELSE Head(ss) \o Flatten(Tail(ss))

\* the children of an algebraic node, in declared order
AlgKids(e) == IF Tag(e) \in {"U", "B", "A"} THEN Kids(e) ELSE <<>>

RECURSIVE VisitOrder(_)
\* a node first, then its children's subtrees, the last declared child first
VisitOrder(e) ==
  <<e>> \o Flatten([i \in 1..Len(AlgKids(e)) |-> VisitOrder(Rev(AlgKids(e))[i])])

RECURSIVE ReplaceAll(_, _, _)
\* e with every occurrence of m replaced by r
ReplaceAll(e, m, r) ==
  IF e = m THEN r
  ELSE CASE Tag(e) = "U" -> UExpr(e[2], ReplaceAll(e[3], m, r))
         [] Tag(e) = "B" -> BExpr(e[2], ReplaceAll(e[3], m, r), ReplaceAll(e[4], m, r))
         [] Tag(e) = "A" -> Assoc(e[2], [i \in 1..Len(e[3]) |-> ReplaceAll(e[3][i], m, r)])
         [] OTHER -> e

RECURSIVE RuleFold(_, _)
\* the left fold of the rule step over the subterms still to visit
RuleFold(todo, acc) ==
  IF todo = <<>> THEN acc
  ELSE RuleFold(Tail(todo),
                IF Head(todo) \in DOMAIN rules
                THEN ReplaceAll(acc, Head(todo), rules[Head(todo)])
                ELSE acc)

RECURSIVE NoApplication(_)
\* no function application anywhere in e
NoApplication(e) ==
  Tag(e) # "Fun" /\ \A i \in 1..Len(Kids(e)) : NoApplication(Kids(e)[i])

\* C12: with no definition stored, evaluating a bare expression e returns
\* the left fold, from accumulator e, over the subterms of e itself in
\* traversal order (e first, then depth-first with the last declared child
\* first, every node once) of the step that replaces every occurrence of a
\* visited stored rule pattern in the accumulator by the rule's replacement
\* and otherwise leaves the accumulator as it is.
C12_RuleFoldInTraversalOrder ==
  (lastAst[1] = "Expr" /\ DOMAIN defs = {} /\ NoApplication(lastAst[2]))
    => /\ IterSeq(lastAst[2]) = VisitOrder(lastAst[2])
       /\ lastRes = <<"OkSome", RuleFold(VisitOrder(lastAst[2]), lastAst[2])>>

\* y := x, then x := 2, then x + y: y is visited before x, giving 2 + 2
C12_Witness ==
  /\ lastAst = <<"Expr", AddOf(SymX, SymY)>>
  /\ DOMAIN defs = {}
  /\ DOMAIN rules = {SymX, SymY}
  /\ rules[SymY] = SymX
  /\ rules[SymX] = Num(2)
  /\ lastRes = <<"OkSome", AddOf(Num(2), Num(2))>>

\* ------------------------------------------------------- ranks by shape

\* numbers, then symbols and constants, then compounds
Rank(e) ==
  CASE Tag(e) = "Num" -> 0
    [] Tag(e) \in {"Sym", "Cte"} -> 1
    [] OTHER -> 2

\* C13: every Number compares strictly less than every Symbol, Constant and
\* compound, and every Symbol or Constant strictly less than every
\* compound, whatever the children of the compound are.
C13_ShapeRanks ==
  (ordSt = "done" /\ Rank(ordA) < Rank(ordB))
    => (ordAB = "Less" /\ ordBA = "Greater")

\* ---------------------------------------------------- the stored rules

\* C14: after any sequence of statements every stored rule's replacement is
\* free of its own pattern: it neither equals the pattern nor contains it,
\* also when the rewrite pass over a free value brings the pattern back.
C14_StoredRulesFree ==
  \A p \in DOMAIN rules : ExprFree(rules[p], p)

\* ------------------------------------------------- the pass terminates

RECURSIVE CallNames(_)
\* the names applied anywhere in e
CallNames(e) ==
  (IF Tag(e) = "Fun" THEN {e[2]} ELSE {})
    \cup UNION {CallNames(Kids(e)[i]) : i \in 1..Len(Kids(e))}

\* the defined names the body of n applies
CalledBy(n) == CallNames(defs[n].map) \cap DOMAIN defs

RECURSIVE CalledThrough(_, _)
\* the defined names reached from S along at most k more bodies
CalledThrough(S, k) ==
  IF k = 0 THEN S
  ELSE CalledThrough(S \cup UNION {CalledBy(m) : m \in S}, k - 1)

\* some definition's body applies its own name, directly or through a chain
\* of other stored definitions
RecursiveDefs ==
  \E n \in DOMAIN defs :
    n \in CalledThrough(CalledBy(n), Cardinality(DOMAIN defs))

SelfDef == [map |-> Fun(NameG, <<SymX>>), arg |-> <<SymX>>]

\* C15: the rewrite pass returns, an expression or an error, for every
\* expression and rule table whenever no stored definition is recursive;
\* and evaluating g(1) where g(x) = g(x) never returns.
C15_PassTerminates ==
  /\ ~RecursiveDefs => lastRes # Diverges
  /\ (/\ lastAst = <<"Expr", Fun(NameG, <<Num(1)>>)>>
      /\ NameG \in DOMAIN defs
      /\ defs[NameG] = SelfDef)
       => lastRes = Diverges

\* C1: for every pair a, b the comparison is Equal exactly when a and b are
\* structurally equal, and b.cmp(a) is the reverse of a.cmp(b), so exactly one
\* of a<b, a==b, b<a holds.
C1_Trichotomy ==
  ordSt = "done" =>
    /\ (ordAB = "Equal") <=> (ordA = ordB)
    /\ ordBA = Reverse(ordAB)

====
